---------------------------- MODULE Spec2Model ----------------------------
(* A model of producerid-service (src/src/main.rs): a Server receives HTTP  *)
(* requests one at a time and runs them through a Processor that keeps all  *)
(* of its state in a shared Redis store: one hash (pod name -> producer id) *)
(* and two families of lists (the history of a pod, the history of a        *)
(* producer id).  Several service instances may share the store; each store *)
(* command is atomic, a request is a sequence of store commands.            *)
EXTENDS Integers, Sequences, FiniteSets, TLC

(***************************************************************************)
(* Bounds of the model.                                                    *)
(***************************************************************************)
\* ProducerID is u16 (0..65535); the model draws from 0..MaxId.
MaxId == 2
\* Number of requests received (by all instances together) in one run.
MaxRequests == 3

\* The service instances sharing the store.
Instances == {1, 2}
ProducerID == 0..MaxId

\* Pod names a request body may carry; "" is the empty String.
PodNames == {"", "web-1", "web-2"}

\* Request paths matched by Server::process_one, and one that is not.
Urls == {"/history/pod", "/history/producer", "/acquire", "/release", "/other"}

\* What hget replies for a field: nil when the hash has no such field.
Nil == [present |-> FALSE, data |-> << >>]

Bulk(s) == [present |-> TRUE, data |-> s]

(***************************************************************************)
(* Values as the store holds them.                                         *)
(***************************************************************************)
DigitChars == <<"0", "1", "2", "3", "4", "5", "6", "7", "8", "9">>

\* hset(.., v) with v: u16 sends the decimal rendering of v.
RECURSIVE to_redis_arg(_)
to_redis_arg(n) ==
    IF n < 10 THEN <<DigitChars[n + 1]>>
    ELSE to_redis_arg(n \div 10) \o <<DigitChars[(n % 10) + 1]>>

DigitValue(c) == CHOOSE d \in 0..9 : DigitChars[d + 1] = c

IsDigit(c) == \E d \in 0..9 : DigitChars[d + 1] = c

RECURSIVE ParseDigits(_, _)
ParseDigits(s, acc) ==
    IF s = <<>> THEN acc
    ELSE ParseDigits(Tail(s), acc * 10 + DigitValue(Head(s)))

\* A reply read back as u16: an error for a nil reply (the field is absent),
\* for text that is not a number and for a number out of range.
from_redis_value(v) ==
    IF ~v.present THEN [ok |-> FALSE, val |-> 0]
    ELSE IF v.data = << >> \/ \E k \in 1..Len(v.data) : ~IsDigit(v.data[k])
         THEN [ok |-> FALSE, val |-> 0]
    ELSE IF ParseDigits(v.data, 0) \notin ProducerID THEN [ok |-> FALSE, val |-> 0]
    ELSE [ok |-> TRUE, val |-> ParseDigits(v.data, 0)]

\* serde_json::to_string of the two entry structs: the fields in declaration
\* order, each a (name, value) pair.
PodHistoryEntry(producer_id, date) == [producer_id |-> producer_id, date |-> date]

ProducerHistoryEntry(pod_name, date) == [pod_name |-> pod_name, date |-> date]

pod_entry_to_string(e) == << <<"producer_id", e.producer_id>>, <<"date", e.date>> >>

producer_entry_to_string(e) == << <<"pod_name", e.pod_name>>, <<"date", e.date>> >>

\* serde_json::from_str::<T>: the text must carry the fields of T.
pod_entry_from_str(s) ==
    IF Len(s) = 2 /\ s[1][1] = "producer_id" /\ s[2][1] = "date"
    THEN [ok |-> TRUE, val |-> PodHistoryEntry(s[1][2], s[2][2])]
    ELSE [ok |-> FALSE, val |-> PodHistoryEntry(0, 0)]

producer_entry_from_str(s) ==
    IF Len(s) = 2 /\ s[1][1] = "pod_name" /\ s[2][1] = "date"
    THEN [ok |-> TRUE, val |-> ProducerHistoryEntry(s[1][2], s[2][2])]
    ELSE [ok |-> FALSE, val |-> ProducerHistoryEntry("", 0)]

(***************************************************************************)
(* Store keys.                                                             *)
(***************************************************************************)
mk_pod_key(name) == <<"producerid-service::history_per_pod", name>>

\* A variant of mk_producer_key that leaves the id out of the key.
mk_producer_key_NoId(id) == <<"producerid-service::history_per_producer", 0>>

mk_producer_key(id) == <<"producerid-service::history_per_producer", id>>

ListKeys == {mk_pod_key(p) : p \in PodNames} \cup {mk_producer_key(x) : x \in ProducerID}

(***************************************************************************)
(* State.                                                                  *)
(***************************************************************************)
VARIABLES
    ids,          \* the hash at REDIS_IDS_KEY ("producerid-service::ids"):
                  \* pod name -> field value, or Nil
    lists,        \* the history lists: list key -> entries, newest first
    clock,        \* what Utc::now() returns next
    pc,           \* per instance: where its control is
    req,          \* per instance: the request being (or last) processed
    all_ids,      \* per instance: acquire's all_ids
    n,            \* per instance: new_id's n
    exists,       \* per instance: new_id's exists
    id,           \* per instance: acquire's resolved id (v)
    fresh,        \* per instance: whether id came from new_id
    resp,         \* per instance: how its last request ended
    requests,     \* requests received so far
    storeFailed,  \* history: some store command has failed
    pre,          \* history: the store as it was when the last request began
    resolved,     \* history: <<pod, id>> for every id an acquire resolved
    returned,     \* history: <<pod, id>> for every id an acquire returned
    held,         \* history: per pod, the ids acquire returned since the
                  \* last release of that pod
    before        \* history: per instance, the table entry its pod had when
                  \* its last acquire began

vars == <<ids, lists, clock, pc, req, all_ids, n, exists, id, fresh, resp,
          requests, storeFailed, pre, resolved, returned, held, before>>

Snapshot == [ids |-> ids, lists |-> lists, storeFailed |-> storeFailed]

\* Request bodies: JSON that decodes into the route's Request struct, or not.
Malformed == [ok |-> FALSE, pod_name |-> "", producer_id |-> 0]

PodBody(p) == [ok |-> TRUE, pod_name |-> p, producer_id |-> 0]

ProducerBody(x) == [ok |-> TRUE, pod_name |-> "", producer_id |-> x]

\* How a request ends: a response written by process_one, or Err returned to
\* Server::run, which logs it.
NoResp == [kind |-> "none"]

StatusResponse(status, error) == [kind |-> "status", status |-> status, error |-> error]

ProducerIdResponse(v) == [kind |-> "producer_id", producer_id |-> v]

PodHistoryResponse(l) == [kind |-> "producer_ids", list |-> l]

ProducerHistoryResponse(l) == [kind |-> "pods", list |-> l]

ErrResult(e) == [kind |-> "Err", err |-> e]

Init ==
    /\ ids = [p \in PodNames |-> Nil]
    /\ lists = [k \in ListKeys |-> << >>]
    /\ clock = 1
    /\ pc = [i \in Instances |-> "recv"]
    /\ req = [i \in Instances |-> [url |-> "/other", body |-> Malformed]]
    /\ all_ids = [i \in Instances |-> {}]
    /\ n = [i \in Instances |-> 0]
    /\ exists = [i \in Instances |-> TRUE]
    /\ id = [i \in Instances |-> 0]
    /\ fresh = [i \in Instances |-> FALSE]
    /\ resp = [i \in Instances |-> NoResp]
    /\ requests = 0
    /\ storeFailed = FALSE
    /\ pre = Snapshot
    /\ resolved = {}
    /\ returned = {}
    /\ held = [p \in PodNames |-> {}]
    /\ before = [i \in Instances |-> Nil]

(***************************************************************************)
(* Store commands, as functions of the store's contents.                   *)
(***************************************************************************)
\* HVALS: every field's value, collected into a HashSet<ProducerID>.
hvals(h) == {from_redis_value(h[p]).val : p \in {q \in PodNames : h[q].present}}

hget(h, field) == h[field]

\* A variant of hset whose write is lost.
hset_Dropped(h, field, v) == h

hset(h, field, v) == [h EXCEPT ![field] = Bulk(to_redis_arg(v))]

\* A variant of hdel that removes nothing.
hdel_Noop(h, field) == h

hdel(h, field) == [h EXCEPT ![field] = Nil]

\* Variants of lpush: one that replaces the list by the new entry, one that
\* adds the entry at the tail.
lpush_Overwrite(l, key, value) == [l EXCEPT ![key] = <<value>>]

lpush_AtTail(l, key, value) == [l EXCEPT ![key] = @ \o <<value>>]

lpush(l, key, value) == [l EXCEPT ![key] = <<value>> \o @]

lrange(l, key) == l[key]

(***************************************************************************)
(* Server::run and Server::process_one: receiving and routing.             *)
(***************************************************************************)
\* recv() hands over the next request; process_one reads its url and body.
Begin(i, url, body) ==
    /\ pc[i] = "recv"
    /\ requests < MaxRequests
    /\ requests' = requests + 1
    /\ req' = [req EXCEPT ![i] = [url |-> url, body |-> body]]
    /\ pre' = Snapshot

\* What the client receives: respond() sends the JSON body with status 200;
\* when process_one returns Err the Request is dropped unanswered, and
\* tiny_http answers a dropped Request with an empty 500.
status_code(r) == IF r.kind = "Err" THEN 500 ELSE 200

\* A variant of run() that passes process_one's error on (process_one(hreq)?)
\* and so leaves the loop.
run_after_Propagate(r) == IF r.kind = "Err" THEN "exit" ELSE "recv"

\* Where run() goes once process_one has returned r: an Err is printed
\* (eprintln!) and the loop goes round to recv() like after Ok.
run_after(r) == "recv"

\* self.http_server.recv()? fails: run() returns Err and main exits.
RecvError(i) ==
    /\ pc[i] = "recv"
    /\ pc' = [pc EXCEPT ![i] = "exit"]
    /\ UNCHANGED <<ids, lists, clock, req, all_ids, n, exists, id, fresh, resp,
                   requests, storeFailed, pre, resolved, returned, held, before>>

\* process_one ends, with a response or with Err that run() prints, and its
\* locals are dropped; run() loops back to recv().
End(i, r) ==
    /\ pc' = [pc EXCEPT ![i] = run_after(r)]
    /\ resp' = [resp EXCEPT ![i] = r]
    /\ all_ids' = [all_ids EXCEPT ![i] = {}]
    /\ n' = [n EXCEPT ![i] = 0]
    /\ exists' = [exists EXCEPT ![i] = TRUE]
    /\ id' = [id EXCEPT ![i] = 0]
    /\ fresh' = [fresh EXCEPT ![i] = FALSE]

\* A store command that failed: `?` returns Err(Redis) out of process_one.
StoreError(i) ==
    /\ storeFailed' = TRUE
    /\ End(i, ErrResult("Redis"))

\* The `_` arm: any other path is answered with status OK.
OtherRoute(i) ==
    /\ Begin(i, "/other", Malformed)
    /\ End(i, StatusResponse("OK", "null"))
    /\ UNCHANGED <<ids, lists, clock, storeFailed, resolved, returned, held, before>>

\* serde_json::from_reader(..)? fails: process_one returns Err(JSON).
BadBody(i) ==
    /\ \E url \in Urls \ {"/other"} : Begin(i, url, Malformed)
    /\ End(i, ErrResult("JSON"))
    /\ UNCHANGED <<ids, lists, clock, storeFailed, resolved, returned, held, before>>

\* A variant of is_empty that takes every name for non-empty.
is_empty_Never(str) == FALSE

\* r.pod_name.is_empty()
is_empty(str) == str = ""

\* "/acquire" or "/release" with an empty pod_name: the `true` arm.
EmptyPodName(i) ==
    /\ \E url \in {"/acquire", "/release"}, p \in PodNames :
         is_empty(p) /\ Begin(i, url, PodBody(p))
    /\ End(i, StatusResponse("ERROR", "pod name can't be empty"))
    /\ UNCHANGED <<ids, lists, clock, storeFailed, resolved, returned, held, before>>

(***************************************************************************)
(* Processor::release, called from the "/release" arm.                     *)
(***************************************************************************)
\* hdel(REDIS_IDS_KEY, pod_name)?; Ok(()) -- then the arm answers status OK.
Release(i, p, failed) ==
    /\ ~is_empty(p)
    /\ Begin(i, "/release", PodBody(p))
    /\ IF failed
       THEN StoreError(i) /\ UNCHANGED ids
       ELSE /\ ids' = hdel(ids, p)
            /\ End(i, StatusResponse("OK", "null"))
            /\ UNCHANGED storeFailed
    /\ held' = [held EXCEPT ![p] = {}]
    /\ UNCHANGED <<lists, clock, resolved, returned, before>>

(***************************************************************************)
(* Processor::acquire, called from the "/acquire" arm, one store command   *)
(* per step.                                                               *)
(***************************************************************************)
\* let all_ids: HashSet<ProducerID> = self.conn.hvals(REDIS_IDS_KEY)?;
AcquireHvals(i, p, failed) ==
    /\ ~is_empty(p)
    /\ Begin(i, "/acquire", PodBody(p))
    /\ IF failed
       THEN StoreError(i)
       ELSE /\ all_ids' = [all_ids EXCEPT ![i] = hvals(ids)]
            /\ pc' = [pc EXCEPT ![i] = "hget"]
            /\ UNCHANGED <<n, exists, id, fresh, resp, storeFailed>>
    /\ before' = [before EXCEPT ![i] = ids[p]]
    /\ UNCHANGED <<ids, lists, clock, resolved, returned, held>>

\* What hget(..) gives as Result<ProducerID, RedisError>, given the reply
\* (or the failure of the command).
HgetResult(failed, reply) ==
    IF failed THEN [ok |-> FALSE, val |-> 0] ELSE from_redis_value(reply)

\* self.conn.hget(REDIS_IDS_KEY, pod_name).or_else(|_| Ok(new_id(all_ids))):
\* Ok(v) is kept; on any Err the closure runs and new_id starts
\* (n = 0, exists = true).
AcquireHget(i, failed) ==
    /\ pc[i] = "hget"
    /\ LET r == HgetResult(failed, hget(ids, req[i].body.pod_name)) IN
       /\ storeFailed' = (storeFailed \/ failed)
       /\ IF r.ok
          THEN /\ id' = [id EXCEPT ![i] = r.val]
               /\ fresh' = [fresh EXCEPT ![i] = FALSE]
               /\ pc' = [pc EXCEPT ![i] = "hset"]
               /\ resolved' = resolved \cup {<<req[i].body.pod_name, r.val>>}
               /\ UNCHANGED <<n, exists>>
          ELSE /\ n' = [n EXCEPT ![i] = 0]
               /\ exists' = [exists EXCEPT ![i] = TRUE]
               /\ pc' = [pc EXCEPT ![i] = "new_id"]
               /\ UNCHANGED <<id, fresh, resolved>>
    /\ UNCHANGED <<ids, lists, clock, req, all_ids, resp, requests, pre,
                   returned, held, before>>

\* Variants of new_id's loop condition, each with one test dropped.
NewIdLoops_NoExists(nn, ex) == nn <= 0

NewIdLoops_ZeroAllowed(nn, ex) == ex

\* new_id's loop condition: while n <= 0 || exists.
NewIdLoops(nn, ex) == nn <= 0 \/ ex

\* One turn of new_id's loop, r being the value drawn: n = r; exists =
\* all_ids.contains(&n).  When the condition then fails, new_id returns n,
\* which becomes acquire's id.
NewIdTurn(i, r) ==
    /\ pc[i] = "new_id"
    /\ NewIdLoops(n[i], exists[i])
    /\ IF NewIdLoops(r, r \in all_ids[i])
       THEN /\ n' = [n EXCEPT ![i] = r]
            /\ exists' = [exists EXCEPT ![i] = (r \in all_ids[i])]
            /\ UNCHANGED <<id, fresh, pc, resolved>>
       ELSE /\ n' = [n EXCEPT ![i] = 0]
            /\ exists' = [exists EXCEPT ![i] = TRUE]
            /\ id' = [id EXCEPT ![i] = r]
            /\ fresh' = [fresh EXCEPT ![i] = TRUE]
            /\ pc' = [pc EXCEPT ![i] = "hset"]
            /\ resolved' = resolved \cup {<<req[i].body.pod_name, r>>}
    /\ UNCHANGED <<ids, lists, clock, req, all_ids, resp, requests, storeFailed,
                   pre, returned, held, before>>

\* rand::random::<u16>() may give any value.
NewIdDraw(i) == \E r \in ProducerID : NewIdTurn(i, r)

\* self.conn.hset(REDIS_IDS_KEY, pod_name, v)?;
AcquireHset(i, failed) ==
    /\ pc[i] = "hset"
    /\ IF failed
       THEN StoreError(i) /\ UNCHANGED ids
       ELSE /\ ids' = hset(ids, req[i].body.pod_name, id[i])
            /\ pc' = [pc EXCEPT ![i] = "lpush_pod"]
            /\ UNCHANGED <<all_ids, n, exists, id, fresh, resp, storeFailed>>
    /\ UNCHANGED <<lists, clock, req, requests, pre, resolved, returned, held, before>>

\* self.conn.lpush(mk_pod_key(pod_name), to_string(&PodHistoryEntry {
\*     producer_id: v, date: Utc::now() })?)?;
AcquireLpushPod(i, failed) ==
    /\ pc[i] = "lpush_pod"
    /\ clock' = clock + 1
    /\ IF failed
       THEN StoreError(i) /\ UNCHANGED lists
       ELSE /\ lists' = lpush(lists, mk_pod_key(req[i].body.pod_name),
                              pod_entry_to_string(PodHistoryEntry(id[i], clock)))
            /\ pc' = [pc EXCEPT ![i] = "lpush_producer"]
            /\ UNCHANGED <<all_ids, n, exists, id, fresh, resp, storeFailed>>
    /\ UNCHANGED <<ids, req, requests, pre, resolved, returned, held, before>>

\* self.conn.lpush(mk_producer_key(v), to_string(&ProducerHistoryEntry {
\*     pod_name, date: Utc::now() })?)?; id -- then the arm answers
\* {"producer_id": v}.
AcquireLpushProducer(i, failed) ==
    /\ pc[i] = "lpush_producer"
    /\ clock' = clock + 1
    /\ IF failed
       THEN StoreError(i) /\ UNCHANGED <<lists, returned, held>>
       ELSE /\ lists' = lpush(lists, mk_producer_key(id[i]),
                              producer_entry_to_string(
                                  ProducerHistoryEntry(req[i].body.pod_name, clock)))
            /\ End(i, ProducerIdResponse(id[i]))
            /\ returned' = returned \cup {<<req[i].body.pod_name, id[i]>>}
            /\ held' = [held EXCEPT ![req[i].body.pod_name] = @ \cup {id[i]}]
            /\ UNCHANGED storeFailed
    /\ UNCHANGED <<ids, req, requests, pre, resolved, before>>

(***************************************************************************)
(* Processor::history and its two callers.                                 *)
(***************************************************************************)
\* iter.map(|v| serde_json::from_str(&v)).collect(), given each entry's
\* from_str result: every entry decoded, or Err when one is not.
history(mapped) ==
    IF \E k \in 1..Len(mapped) : ~mapped[k].ok
    THEN [ok |-> FALSE, val |-> << >>]
    ELSE [ok |-> TRUE, val |-> [k \in 1..Len(mapped) |-> mapped[k].val]]

pod_history(l, pod_name) ==
    LET vals == lrange(l, mk_pod_key(pod_name)) IN
    history([k \in 1..Len(vals) |-> pod_entry_from_str(vals[k])])

producer_history(l, producer_id) ==
    LET vals == lrange(l, mk_producer_key(producer_id)) IN
    history([k \in 1..Len(vals) |-> producer_entry_from_str(vals[k])])

\* The "/history/pod" arm.
PodHistory(i, p, failed) ==
    /\ Begin(i, "/history/pod", PodBody(p))
    /\ IF failed
       THEN StoreError(i)
       ELSE /\ LET h == pod_history(lists, p) IN
               End(i, IF h.ok THEN PodHistoryResponse(h.val) ELSE ErrResult("JSON"))
            /\ UNCHANGED storeFailed
    /\ UNCHANGED <<ids, lists, clock, resolved, returned, held, before>>

\* The "/history/producer" arm.
ProducerHistory(i, x, failed) ==
    /\ Begin(i, "/history/producer", ProducerBody(x))
    /\ IF failed
       THEN StoreError(i)
       ELSE /\ LET h == producer_history(lists, x) IN
               End(i, IF h.ok THEN ProducerHistoryResponse(h.val) ELSE ErrResult("JSON"))
            /\ UNCHANGED storeFailed
    /\ UNCHANGED <<ids, lists, clock, resolved, returned, held, before>>

(***************************************************************************)
(* Specifications.                                                         *)
(***************************************************************************)
\* Several instances against one store that answers every command, their
\* store commands interleaved.
Next ==
    \E i \in Instances :
        \/ OtherRoute(i)
        \/ BadBody(i)
        \/ EmptyPodName(i)
        \/ \E p \in PodNames : Release(i, p, FALSE)
        \/ \E p \in PodNames : AcquireHvals(i, p, FALSE)
        \/ AcquireHget(i, FALSE)
        \/ NewIdDraw(i)
        \/ AcquireHset(i, FALSE)
        \/ AcquireLpushPod(i, FALSE)
        \/ AcquireLpushProducer(i, FALSE)
        \/ \E p \in PodNames : PodHistory(i, p, FALSE)
        \/ \E x \in ProducerID : ProducerHistory(i, x, FALSE)

Spec == Init /\ [][Next]_vars

\* A single instance, requests one at a time, against a store whose every
\* command may fail; recv() may fail too, which ends the process.
SeqNext ==
    \/ RecvError(1)
    \/ OtherRoute(1)
    \/ BadBody(1)
    \/ EmptyPodName(1)
    \/ NewIdDraw(1)
    \/ \E failed \in BOOLEAN :
        \/ \E p \in PodNames : Release(1, p, failed)
        \/ \E p \in PodNames : AcquireHvals(1, p, failed)
        \/ AcquireHget(1, failed)
        \/ AcquireHset(1, failed)
        \/ AcquireLpushPod(1, failed)
        \/ AcquireLpushProducer(1, failed)
        \/ \E p \in PodNames : PodHistory(1, p, failed)
        \/ \E x \in ProducerID : ProducerHistory(1, x, failed)

SeqSpec == Init /\ [][SeqNext]_vars

\* Every instance serves one request, an acquire, against a store that
\* answers every command: the acquires race.
RaceNext ==
    \E i \in Instances :
        \/ \E p \in PodNames : resp[i].kind = "none" /\ AcquireHvals(i, p, FALSE)
        \/ AcquireHget(i, FALSE)
        \/ NewIdDraw(i)
        \/ AcquireHset(i, FALSE)
        \/ AcquireLpushPod(i, FALSE)
        \/ AcquireLpushProducer(i, FALSE)

RaceSpec == Init /\ [][RaceNext]_vars

\* new_id on its own: every instance is inside an acquire that has reached
\* new_id (n = 0, exists = true), with any exclusion set, and turns the loop.
\* Every value of the range is drawn again and again: a turn that draws r
\* cannot be put off for ever.
NewIdInit ==
    /\ ids = [p \in PodNames |-> Nil]
    /\ lists = [k \in ListKeys |-> << >>]
    /\ clock = 1
    /\ pc = [i \in Instances |-> "new_id"]
    /\ req = [i \in Instances |-> [url |-> "/acquire", body |-> PodBody("web-1")]]
    /\ all_ids \in [Instances -> SUBSET ProducerID]
    /\ n = [i \in Instances |-> 0]
    /\ exists = [i \in Instances |-> TRUE]
    /\ id = [i \in Instances |-> 0]
    /\ fresh = [i \in Instances |-> FALSE]
    /\ resp = [i \in Instances |-> NoResp]
    /\ requests = 0
    /\ storeFailed = FALSE
    /\ pre = Snapshot
    /\ resolved = {}
    /\ returned = {}
    /\ held = [p \in PodNames |-> {}]
    /\ before = [i \in Instances |-> Nil]

NewIdNext == \E i \in Instances : NewIdDraw(i)

NewIdSpec ==
    /\ NewIdInit
    /\ [][NewIdNext]_vars
    /\ \A i \in Instances, r \in ProducerID : WF_vars(NewIdTurn(i, r))

(***************************************************************************)
(* Vocabulary of the properties.                                           *)
(***************************************************************************)
\* The Active Assignment Table h binds pod p.
Bound(h, p) == h[p].present

\* The ProducerID the table h binds pod p to.
IdOf(h, p) == from_redis_value(h[p]).val

\* The ProducerIDs in use in table h.
TableValues(h) == {IdOf(h, p) : p \in {q \in PodNames : Bound(h, q)}}

\* No two distinct pods of table h are bound to the same ProducerID.
Injective(h) ==
    \A p, q \in PodNames :
        (p # q /\ Bound(h, p) /\ Bound(h, q)) => IdOf(h, p) # IdOf(h, q)

\* Instance i's last request was for `url`, carried a body that decodes, and
\* is over: req[i], resp[i] and (in SeqSpec) pre describe that request.
Completed(i, url) == pc[i] = "recv" /\ req[i].url = url /\ req[i].body.ok

\* Instance i's last request was acquire(P) for a non-empty P and returned an id.
AcquireReturned(i) == Completed(i, "/acquire") /\ resp[i].kind = "producer_id"

(***************************************************************************)
(* C1 (SeqSpec): with a single instance processing requests one at a time  *)
(* and no store command failing, the Active Assignment Table is injective  *)
(* in every reachable state: no two distinct pod names are bound to the    *)
(* same ProducerID.                                                         *)
(***************************************************************************)
C1_TableInjective == ~storeFailed => Injective(ids)

\* Two pods are bound after a request completed, with no store failure.
C1_TwoPodsBound ==
    /\ ~storeFailed
    /\ pc[1] = "recv"
    /\ \E p, q \in PodNames : p # q /\ Bound(ids, p) /\ Bound(ids, q)

(***************************************************************************)
(* C2 (RaceSpec): the original claim -- when instances race first-time     *)
(* acquires, no reachable state has two distinct pod names bound to the    *)
(* same ProducerID.                                                         *)
(***************************************************************************)
C2_NoSharedIdUnderRace == Injective(ids)

(***************************************************************************)
(* C2 as amended (RaceSpec): when the later of two first-time acquires     *)
(* reads the table (hvals) after the earlier one's hset, the two pods get  *)
(* different ProducerIDs; two pods can share an id only when the later     *)
(* acquire's hvals came before the earlier one's hset.  pre is the store   *)
(* at the later acquire's hvals.  In every case the id an acquire          *)
(* generates is not 0 and is not among the values its own hvals read.      *)
(***************************************************************************)
C2_SharedIdOnlyIfOverlap ==
    /\ (\E p \in PodNames : Bound(pre.ids, p)) => Injective(ids)
    /\ \A i \in Instances :
         (pc[i] \in {"hset", "lpush_pod", "lpush_producer"} /\ fresh[i])
             => (id[i] # 0 /\ id[i] \notin all_ids[i])

\* Both acquires returned, for two pods, the second having begun after the
\* first one's hset.
C2_SecondSawFirst ==
    /\ \A i \in Instances : AcquireReturned(i)
    /\ req[1].body.pod_name # req[2].body.pod_name
    /\ \E p \in PodNames : Bound(pre.ids, p)

(***************************************************************************)
(* C3 (SeqSpec): for a pod P with no binding when acquire(P) starts        *)
(* (single instance, no store failure), the id acquire(P) returns is not 0 *)
(* and is not among the table's values as they were just before the call.  *)
(***************************************************************************)
C3_FreshIdNonzeroAndUnused ==
    (/\ AcquireReturned(1)
     /\ ~storeFailed
     /\ ~Bound(pre.ids, req[1].body.pod_name))
    => /\ resp[1].producer_id # 0
       /\ resp[1].producer_id \notin TableValues(pre.ids)

\* acquire(P) returned for an unbound P while another pod was bound.
C3_FirstAcquireWithOthersBound ==
    /\ AcquireReturned(1)
    /\ ~storeFailed
    /\ ~Bound(pre.ids, req[1].body.pod_name)
    /\ TableValues(pre.ids) # {}

(***************************************************************************)
(* C4 (SeqSpec): two acquire(P) calls made in sequence with no release(P)  *)
(* between them return the same ProducerID, whatever happens to other pods *)
(* in between: the ids acquire(P) has returned since the last release(P)   *)
(* are at most one.                                                         *)
(***************************************************************************)
C4_ReacquireReturnsSameId == \A p \in PodNames : Cardinality(held[p]) <= 1

(***************************************************************************)
(* C5 (SeqSpec): release(P) that returns Ok leaves P with no entry in the  *)
(* Active Assignment Table; it returns Ok whenever the store has not       *)
(* failed, whether or not P had an entry; it changes no other pod's entry  *)
(* and no history log, and when P had no entry the table is exactly as it  *)
(* was.                                                                     *)
(***************************************************************************)
C5_ReleaseRemovesOrNoop ==
    (Completed(1, "/release") /\ req[1].body.pod_name # "") =>
        LET P == req[1].body.pod_name
            ok == resp[1].kind = "status" /\ resp[1].status = "OK"
        IN /\ ok => ~Bound(ids, P)
           /\ ~storeFailed => ok
           /\ \A q \in PodNames \ {P} : ids[q] = pre.ids[q]
           /\ lists = pre.lists
           /\ ~Bound(pre.ids, P) => ids = pre.ids

\* release(P) returned Ok for a P that was bound, while P has history.
C5_ReleasedBoundPod ==
    /\ Completed(1, "/release")
    /\ resp[1].kind = "status"
    /\ Bound(pre.ids, req[1].body.pod_name)
    /\ lists[mk_pod_key(req[1].body.pod_name)] # << >>

(***************************************************************************)
(* C6 (SeqSpec): every acquire(P) that returns an id makes pod_history(P)  *)
(* exactly one entry longer than it was before the call, for a fresh       *)
(* binding and for an existing one alike, and leaves the length of every   *)
(* other pod's history as it was.                                           *)
(***************************************************************************)
C6_PodHistoryGrowsByOne ==
    AcquireReturned(1) =>
        LET P == req[1].body.pod_name IN
        /\ pod_history(lists, P).ok
        /\ Len(pod_history(lists, P).val) = Len(pod_history(pre.lists, P).val) + 1
        /\ \A q \in PodNames \ {P} :
             Len(pod_history(lists, q).val) = Len(pod_history(pre.lists, q).val)

\* acquire(P) returned the id P was already bound to, P having history.
C6_ReacquireOfBoundPod ==
    /\ AcquireReturned(1)
    /\ Bound(pre.ids, req[1].body.pod_name)
    /\ resp[1].producer_id = IdOf(pre.ids, req[1].body.pod_name)
    /\ pre.lists[mk_pod_key(req[1].body.pod_name)] # << >>

\* producer_history(x) holds an entry whose pod_name is p.
HasProducerEntry(x, p) ==
    \E k \in 1..Len(producer_history(lists, x).val) :
        producer_history(lists, x).val[k].pod_name = p

(***************************************************************************)
(* C7 (SeqSpec): the original claim, read between requests --              *)
(* producer_history(id) contains an entry with pod_name P if and only if   *)
(* some earlier acquire(P) call resolved to id.                             *)
(***************************************************************************)
C7_EntryIffResolved ==
    pc[1] = "recv" =>
        \A x \in ProducerID, p \in PodNames :
            HasProducerEntry(x, p) <=> <<p, x>> \in resolved

(***************************************************************************)
(* C7 as amended (SeqSpec): in every reachable state,                      *)
(* producer_history(id) contains an entry with pod_name P if and only if   *)
(* some earlier acquire(P) call returned id; every such call had resolved  *)
(* to id, but a call that resolved to id and then failed at a store write  *)
(* leaves no entry.                                                         *)
(***************************************************************************)
C7_EntryIffReturned ==
    /\ \A x \in ProducerID, p \in PodNames :
         HasProducerEntry(x, p) <=> <<p, x>> \in returned
    /\ returned \subseteq resolved

\* Between requests: one acquire returned its id, another resolved an id
\* and failed before returning it.
C7_ReturnedAndAbandoned ==
    /\ pc[1] = "recv"
    /\ returned # {}
    /\ resolved \ returned # {}

(***************************************************************************)
(* C8 (SeqSpec): the history logs are append-only -- every step leaves     *)
(* each log unchanged or puts one new entry in front of its previous       *)
(* contents, and the step that serves release(P) leaves every log          *)
(* unchanged.                                                               *)
(***************************************************************************)
C8_LogsAppendOnly ==
    [][/\ \A k \in ListKeys :
            \/ lists'[k] = lists[k]
            \/ /\ Len(lists'[k]) = Len(lists[k]) + 1
               /\ Tail(lists'[k]) = lists[k]
       /\ \A i \in Instances :
            (pc[i] = "recv" /\ requests' # requests /\ req'[i].url = "/release")
                => lists' = lists]_vars

\* release(P) returned Ok for a bound P whose log holds two entries.
C8_ReleaseKeptHistory ==
    /\ Completed(1, "/release")
    /\ resp[1].kind = "status"
    /\ Bound(pre.ids, req[1].body.pod_name)
    /\ Len(lists[mk_pod_key(req[1].body.pod_name)]) >= 2

(***************************************************************************)
(* C9 (SeqSpec): an acquire or release request whose pod name is the       *)
(* empty string is answered with status ERROR and a message, and changes   *)
(* neither the Active Assignment Table nor any history log.                 *)
(***************************************************************************)
C9_EmptyNameRejected ==
    (/\ pc[1] = "recv"
     /\ req[1].url \in {"/acquire", "/release"}
     /\ req[1].body.ok
     /\ req[1].body.pod_name = "")
    => /\ resp[1].kind = "status"
       /\ resp[1].status = "ERROR"
       /\ resp[1].error # "null"
       /\ ids = pre.ids
       /\ lists = pre.lists

\* acquire("") was answered while a pod is bound and has history.
C9_EmptyAcquireOnUsedStore ==
    /\ pc[1] = "recv"
    /\ req[1].url = "/acquire"
    /\ req[1].body.ok
    /\ req[1].body.pod_name = ""
    /\ TableValues(ids) # {}

(***************************************************************************)
(* C10 (SeqSpec): if a store command fails during acquire(P), acquire(P)   *)
(* returns an error to its caller: the request does not end with a         *)
(* producer id.                                                             *)
(***************************************************************************)
C10_FailedStoreCallIsAnError ==
    (/\ Completed(1, "/acquire")
     /\ req[1].body.pod_name # ""
     /\ ~pre.storeFailed
     /\ storeFailed)
    => resp[1].kind = "Err"

\* Pod p shares its ProducerID with another pod of table h.
Collides(h, p) ==
    Bound(h, p) /\ \E q \in PodNames \ {p} : Bound(h, q) /\ IdOf(h, q) = IdOf(h, p)

(***************************************************************************)
(* C11 (Spec): an acquire(P) that began while P was bound to X returns X,  *)
(* whatever acquire and release calls of other instances (release(P) and   *)
(* acquires of other pods among them) are interleaved with its store       *)
(* commands, and its hset never produces a table in which P shares its     *)
(* ProducerID with another pod.                                             *)
(***************************************************************************)
C11_ReacquireSafeUnderRace ==
    /\ [](\A i \in Instances :
            (AcquireReturned(i) /\ before[i].present)
                => resp[i].producer_id = from_redis_value(before[i]).val)
    /\ [][\A i \in Instances :
            (/\ pc[i] = "hset"
             /\ pc'[i] = "lpush_pod"
             /\ before[i].present
             /\ ~Collides(ids, req[i].body.pod_name))
            => ~Collides(ids', req[i].body.pod_name)]_vars


C13_ReleasedIdIsFreeAgain ==
    /\ []((/\ Completed(1, "/release")
           /\ resp[1].kind = "status"
           /\ resp[1].status = "OK"
           /\ Bound(pre.ids, req[1].body.pod_name))
          => IdOf(pre.ids, req[1].body.pod_name) \notin hvals(ids))
    /\ []((/\ AcquireReturned(1)
           /\ storeFailed = pre.storeFailed
           /\ ~Bound(pre.ids, req[1].body.pod_name))
          => /\ resp[1].producer_id # 0
             /\ resp[1].producer_id \notin TableValues(pre.ids))
    /\ [](pc[1] = "new_id"
          => \A r \in ProducerID :
                (r # 0 /\ r \notin all_ids[1])
                    <=> ENABLED (NewIdDraw(1) /\ pc'[1] = "hset" /\ id'[1] = r))

\* No store command having failed, acquire returned for an unbound pod an id
\* that has a history (it was held and released) while another id was free too.
C13_ReleasedIdGivenAgain ==
    /\ AcquireReturned(1)
    /\ ~storeFailed
    /\ ~Bound(pre.ids, req[1].body.pod_name)
    /\ pre.lists[mk_producer_key(resp[1].producer_id)] # << >>
    /\ \E r \in ProducerID \ {0, resp[1].producer_id} : r \notin TableValues(pre.ids)

\* The entries of h carry strictly later dates the nearer they are to the front.
DatesDescend(h) == \A j, k \in 1..Len(h) : j < k => h[j].date > h[k].date

(***************************************************************************)
(* C14 (SeqSpec): pod_history(P) and producer_history(id) return all the   *)
(* entries of the log, most recent first.  Every append puts the entry the *)
(* acquire wrote (its id or its pod name, dated now) in front of the log;  *)
(* what a history request returns is every entry of the log, decoded, in   *)
(* strictly descending date order, so its k-th entry is the one the k-th   *)
(* most recent append wrote; and it is the empty sequence when no acquire  *)
(* has written to that log.                                                 *)
(***************************************************************************)
C14_HistoryMostRecentFirst ==
    /\ [][\A p \in PodNames, x \in ProducerID :
            /\ lists'[mk_pod_key(p)] # lists[mk_pod_key(p)]
               => /\ p = req[1].body.pod_name
                  /\ pod_history(lists', p).val
                       = <<PodHistoryEntry(id[1], clock)>> \o pod_history(lists, p).val
            /\ lists'[mk_producer_key(x)] # lists[mk_producer_key(x)]
               => /\ x = id[1]
                  /\ producer_history(lists', x).val
                       = <<ProducerHistoryEntry(req[1].body.pod_name, clock)>>
                           \o producer_history(lists, x).val]_vars
    /\ [](\A p \in PodNames, x \in ProducerID :
            /\ pod_history(lists, p).ok
            /\ Len(pod_history(lists, p).val) = Len(lists[mk_pod_key(p)])
            /\ DatesDescend(pod_history(lists, p).val)
            /\ producer_history(lists, x).ok
            /\ Len(producer_history(lists, x).val) = Len(lists[mk_producer_key(x)])
            /\ DatesDescend(producer_history(lists, x).val))
    /\ []((Completed(1, "/history/pod") /\ resp[1].kind # "Err")
          => /\ resp[1].kind = "producer_ids"
             /\ resp[1].list = pod_history(lists, req[1].body.pod_name).val
             /\ (\A x \in ProducerID : <<req[1].body.pod_name, x>> \notin resolved)
                    => resp[1].list = << >>)
    /\ []((Completed(1, "/history/producer") /\ resp[1].kind # "Err")
          => /\ resp[1].kind = "pods"
             /\ resp[1].list = producer_history(lists, req[1].body.producer_id).val
             /\ (\A p \in PodNames : <<p, req[1].body.producer_id>> \notin returned)
                    => resp[1].list = << >>)

\* A pod history request returned two entries.
C14_TwoEntriesReturned ==
    /\ Completed(1, "/history/pod")
    /\ resp[1].kind = "producer_ids"
    /\ Len(resp[1].list) = 2

\* The exclusion set of instance i leaves a nonzero id free.
HasRoom(i) == \E r \in ProducerID \ {0} : r \notin all_ids[i]

(***************************************************************************)
(* C15 (NewIdSpec): when every value of the range is drawn again and       *)
(* again, new_id returns whenever some nonzero id is outside the exclusion *)
(* set, and what it returns is not 0 and is outside the exclusion set;     *)
(* when the exclusion set holds every nonzero id, new_id never returns.    *)
(***************************************************************************)
C15_NewIdTerminatesIffRoom ==
    \A i \in Instances :
        /\ (pc[i] = "new_id" /\ HasRoom(i)) ~> (pc[i] = "hset")
        /\ [](pc[i] = "hset" => (id[i] # 0 /\ id[i] \notin all_ids[i]))
        /\ [](~HasRoom(i) => pc[i] = "new_id")

\* One new_id returned the only id its exclusion set left free; another,
\* whose exclusion set is full, has drawn and is still looping.
C15_OneReturnedOneLooping ==
    /\ pc[1] = "hset"
    /\ Cardinality(all_ids[1] \ {0}) = MaxId - 1
    /\ pc[2] = "new_id"
    /\ ~HasRoom(2)
    /\ n[2] # 0

(***************************************************************************)
(* C16 (SeqSpec): acquire(P) and release(P) change at most P's entry of    *)
(* the Active Assignment Table -- a step changes the entry of pod Q only   *)
(* if it belongs to an acquire or a release that names Q -- and the id of  *)
(* a bound pod changes only through a release of that pod followed by a    *)
(* new acquire: no step turns a binding Q -> X into Q -> Y with Y # X.     *)
(***************************************************************************)
C16_OnlyOwnEntryChanges ==
    [][\A q \in PodNames :
         /\ ids'[q] # ids[q]
            => (req'[1].url \in {"/acquire", "/release"} /\ req'[1].body.pod_name = q)
         /\ (Bound(ids, q) /\ Bound(ids', q)) => IdOf(ids', q) = IdOf(ids, q)]_vars

(***************************************************************************)
(* C17 (SeqSpec): acquire's three writes are independent steps with no     *)
(* rollback.  When the producer-history append fails after the pod-history *)
(* append succeeded, acquire returns an error and leaves the store as it   *)
(* is: the table binds the pod to the id, the pod's log has the new entry  *)
(* in front, and the id's producer log has no entry as recent as that one. *)
(* When the pod-history append fails, acquire returns an error, the table  *)
(* binding stays and neither log has an entry of this call.                *)
(***************************************************************************)
C17_NoRollbackOnFailedAppend ==
    [][LET P == req[1].body.pod_name
           podLog == pod_history(lists', P).val
           producerLog == producer_history(lists', id[1]).val
       IN /\ (pc[1] = "lpush_producer" /\ resp'[1].kind = "Err" /\ pc'[1] = "recv")
             => /\ ids' = ids
                /\ lists' = lists
                /\ Bound(ids', P)
                /\ IdOf(ids', P) = id[1]
                /\ Len(podLog) = Len(pod_history(pre.lists, P).val) + 1
                /\ podLog[1].producer_id = id[1]
                /\ \A k \in 1..Len(producerLog) : producerLog[k].date < podLog[1].date
                /\ lists'[mk_producer_key(id[1])] = pre.lists[mk_producer_key(id[1])]
          /\ (pc[1] = "lpush_pod" /\ resp'[1].kind = "Err" /\ pc'[1] = "recv")
             => /\ ids' = ids
                /\ Bound(ids', P)
                /\ IdOf(ids', P) = id[1]
                /\ lists' = pre.lists]_vars

\* acquire ended with an error after its pod-history append: the pod is
\* bound and its log is one entry longer than when the call began.
C17_ErrorAfterPodAppend ==
    /\ Completed(1, "/acquire")
    /\ resp[1].kind = "Err"
    /\ Bound(ids, req[1].body.pod_name)
    /\ Len(lists[mk_pod_key(req[1].body.pod_name)])
         = Len(pre.lists[mk_pod_key(req[1].body.pod_name)]) + 1

\* How many entries of pod p's history name producer id x, and how many
\* entries of x's history name pod p.
PodEntriesFor(p, x) ==
    Cardinality({k \in 1..Len(pod_history(lists, p).val) :
                    pod_history(lists, p).val[k].producer_id = x})

ProducerEntriesFor(x, p) ==
    Cardinality({k \in 1..Len(producer_history(lists, x).val) :
                    producer_history(lists, x).val[k].pod_name = p})

(***************************************************************************)
(* C18 (SeqSpec): in every state between operations of a run in which no   *)
(* store command has failed, the two ledgers agree: for every pod P and    *)
(* ProducerID x, P's Pod History Log has as many entries with producer_id  *)
(* x as x's Producer History Log has entries with pod_name P.              *)
(***************************************************************************)
C18_LedgersAgree ==
    (pc[1] = "recv" /\ ~storeFailed) =>
        \A p \in PodNames, x \in ProducerID :
            PodEntriesFor(p, x) = ProducerEntriesFor(x, p)

\* After acquire, release, acquire of the same pod with no store failure,
\* the second acquire having returned the id of the first: that id's
\* producer history has two entries for the pod.
C18_SameIdAfterRelease ==
    /\ AcquireReturned(1)
    /\ ~storeFailed
    /\ ~Bound(pre.ids, req[1].body.pod_name)
    /\ ProducerEntriesFor(resp[1].producer_id, req[1].body.pod_name) = 2

(***************************************************************************)
(* C19 (SeqSpec): with a single instance processing requests one at a time *)
(* and no store failure, in every state between operations, for every pod  *)
(* P the table binds to X, the first (most recent) entry of P's Pod        *)
(* History Log has producer_id X and the first entry of X's Producer       *)
(* History Log has pod_name P.                                              *)
(***************************************************************************)
C19_LogHeadsMatchBinding ==
    (pc[1] = "recv" /\ ~storeFailed) =>
        \A p \in PodNames :
            Bound(ids, p) =>
                /\ pod_history(lists, p).val # << >>
                /\ pod_history(lists, p).val[1].producer_id = IdOf(ids, p)
                /\ producer_history(lists, IdOf(ids, p)).val # << >>
                /\ producer_history(lists, IdOf(ids, p)).val[1].pod_name = p

\* Between requests, no store failure: two pods are bound, one of them with
\* a log of two entries or more.
C19_TwoBoundOneReacquired ==
    /\ pc[1] = "recv"
    /\ ~storeFailed
    /\ \E p, q \in PodNames :
         /\ p # q
         /\ Bound(ids, p)
         /\ Bound(ids, q)
         /\ Len(lists[mk_pod_key(p)]) >= 2

\* Every instance's acquire has returned, all for the same pod.
RaceOverSamePod ==
    /\ \A i \in Instances : AcquireReturned(i)
    /\ \A i, j \in Instances : req[i].body.pod_name = req[j].body.pod_name

(***************************************************************************)
(* C20 (RaceSpec): the original claim -- when several instances race       *)
(* acquire(P) for the same pod P and no release(P) occurs, every id        *)
(* returned to a caller for P equals the id the table binds to P once all  *)
(* those calls have completed.                                              *)
(***************************************************************************)
C20_ReturnedIdsAreFinalBinding ==
    RaceOverSamePod =>
        \A i \in Instances :
            /\ Bound(ids, req[i].body.pod_name)
            /\ resp[i].producer_id = IdOf(ids, req[i].body.pod_name)

(***************************************************************************)
(* C20 as amended (RaceSpec): every id returned to a caller for P is the   *)
(* id that call's own hset bound P to, only hset changes the table, and so *)
(* once all the calls have completed the table binds P to the id of the    *)
(* last hset: with no store failure that is one of the returned ids, and   *)
(* all returned ids equal it when the later call began after the earlier   *)
(* call's hset (pre is the store when the later call began); otherwise a   *)
(* caller may hold an id the table no longer binds to P.                   *)
(***************************************************************************)
C20_LastHsetWins ==
    /\ [][\A i \in Instances :
            /\ (pc[i] = "hset" /\ pc'[i] = "lpush_pod")
               => /\ Bound(ids', req[i].body.pod_name)
                  /\ IdOf(ids', req[i].body.pod_name) = id[i]
            /\ pc[i] \in {"lpush_pod", "lpush_producer"} /\ pc'[i] # "recv"
               => id'[i] = id[i]
            /\ (pc[i] = "lpush_producer" /\ pc'[i] = "recv")
               => resp'[i] = ProducerIdResponse(id[i])]_vars
    /\ [][ids' # ids => \E i \in Instances : pc[i] = "hset" /\ pc'[i] = "lpush_pod"]_vars
    /\ [](RaceOverSamePod
          => /\ Bound(ids, req[1].body.pod_name)
             /\ \E i \in Instances :
                  resp[i].producer_id = IdOf(ids, req[1].body.pod_name)
             /\ Bound(pre.ids, req[1].body.pod_name)
                  => \A i \in Instances :
                        resp[i].producer_id = IdOf(ids, req[1].body.pod_name))

\* Two racing acquires of the same pod have returned different ids.
C20_TwoIdsForOnePod ==
    /\ RaceOverSamePod
    /\ \E i, j \in Instances : resp[i].producer_id # resp[j].producer_id

=============================================================================
